---- MODULE Spec2Model ----
(***************************************************************************)
(* Model of src/components/MagicMirror.tsx: the session lifecycle          *)
(* (startMirror / stopMirror and the live-session callbacks) and the       *)
(* response-audio scheduling done by the onmessage callback                *)
(* (nextStartTimeRef is the playback cursor, audioSourcesRef the set of    *)
(* active AudioBufferSourceNode handles).                                  *)
(*                                                                         *)
(* Time is counted in clock ticks.  Every AudioContext has its own         *)
(* currentTime, which starts at 0, advances while the context runs and is  *)
(* frozen once the context is closed.                                      *)
(***************************************************************************)
EXTENDS Integers, Sequences, FiniteSets

\* ---- bounds of the model ----
MaxCtx == 2
MaxMsgs == 2
MaxTime == 2
MaxDur == 2
\* sessions started in the specification of the media streaming
MaxStarts == 3

Ctxs == 1..(IF MaxStarts > MaxCtx THEN MaxStarts ELSE MaxCtx)
Durations == 1..MaxDur

VARIABLES
    appState,               \* useState<AppState>
    startPc,                \* where a running startMirror() is suspended
    streamRef,              \* streamRef.current: TRUE = a live MediaStream, FALSE = null
    inputAudioContextRef,   \* inputAudioContextRef.current: a context id, 0 = null
    outputAudioContextRef,  \* outputAudioContextRef.current: a context id, 0 = null
    ctxState,               \* per output/input context pair: "none", "running", "closed"
    ctxTime,                \* currentTime of each output context
    nextStartTimeRef,       \* nextStartTimeRef.current, the playback cursor
    sources,                \* every AudioBufferSourceNode created so far
    audioSourcesRef,        \* audioSourcesRef.current: set of indices into sources
    sessions,               \* per live session: "none", "connecting", "open", "closed"
    messages,               \* every server message received, in arrival order
    interrupts,             \* number of times the interruption block has run
    isMuted,                \* useState(false)
    closureIsMuted,         \* per session: isMuted as its startMirror closure holds it
    lastFrame,              \* what the latest video interval callback did
    lastAudio,              \* what the latest onaudioprocess callback did
    videoIntervalRef,       \* videoIntervalRef.current: an interval id, 0 = null
    intervals,              \* the interval timers that are running
    sessionPromiseRef,      \* sessionPromiseRef.current: a session id, 0 = null
    activeSessionRef        \* activeSessionRef.current: a session id, 0 = null

vars == <<appState, startPc, streamRef, inputAudioContextRef, outputAudioContextRef,
          ctxState, ctxTime, nextStartTimeRef, sources, audioSourcesRef, sessions,
          messages, interrupts, isMuted, closureIsMuted, lastFrame, lastAudio,
          videoIntervalRef, intervals, sessionPromiseRef, activeSessionRef>>

\* ---- helpers ----
Max(a, b) == IF a >= b THEN a ELSE b

\* number of audio contexts (= sessions) created so far
NumCtx == Cardinality({c \in Ctxs : ctxState[c] # "none"})

\* the messages whose handler is suspended at `await decodeAudioData`
Pending == {m \in DOMAIN messages : messages[m].status = "decoding"}

\* outcomes of the external decoder
DecodeOutcomes == {"ok", "fail"}

Init ==
    /\ appState = "IDLE"
    /\ startPc = "idle"
    /\ streamRef = FALSE
    /\ inputAudioContextRef = 0
    /\ outputAudioContextRef = 0
    /\ ctxState = [c \in Ctxs |-> "none"]
    /\ ctxTime = [c \in Ctxs |-> 0]
    /\ nextStartTimeRef = 0
    /\ sources = <<>>
    /\ audioSourcesRef = {}
    /\ sessions = [c \in Ctxs |-> "none"]
    /\ messages = <<>>
    /\ interrupts = 0
    /\ isMuted = FALSE
    /\ closureIsMuted = [c \in Ctxs |-> FALSE]
    /\ lastFrame = [appState |-> "none", sent |-> FALSE]
    /\ lastAudio = [fired |-> FALSE, muted |-> FALSE, sent |-> FALSE]
    /\ videoIntervalRef = 0
    /\ intervals = {}
    /\ sessionPromiseRef = 0
    /\ activeSessionRef = 0

\* ---- stopMirror ----
\* the context states after close() was called on the referenced contexts
CloseContexts ==
    [c \in Ctxs |->
        IF c # 0 /\ (c = inputAudioContextRef \/ c = outputAudioContextRef)
           /\ ctxState[c] = "running"
        THEN "closed" ELSE ctxState[c]]

\* line 220: clearInterval on the id videoIntervalRef holds
ClearInterval == intervals \ {videoIntervalRef}

\* lines 200-207 ending the remote session the ref holds
SessionsClosedByStop ==
    [s \in Ctxs |-> IF s = activeSessionRef /\ sessions[s] = "open"
                    THEN "closed" ELSE sessions[s]]

\* lines 200-207: the block meant to close the session is empty
SessionsAfterStop == sessions

\* the body of stopMirror: the refs to the contexts, to the interval and to the
\* session, the cursor and the source set are left as they are
StopMirrorEffect ==
    /\ streamRef' = FALSE
    /\ ctxState' = CloseContexts
    /\ intervals' = ClearInterval
    /\ appState' = "IDLE"
    /\ UNCHANGED <<videoIntervalRef, sessionPromiseRef, activeSessionRef>>
    /\ UNCHANGED <<inputAudioContextRef, outputAudioContextRef, ctxTime,
                   nextStartTimeRef, sources, audioSourcesRef>>

\* the Stop button, rendered only while ACTIVE
StopMirror ==
    /\ appState = "ACTIVE"
    /\ StopMirrorEffect
    /\ sessions' = SessionsAfterStop
    /\ UNCHANGED <<startPc, messages, interrupts, isMuted, closureIsMuted, lastFrame,
                   lastAudio>>

\* ---- startMirror ----
\* click on "Awaken the Mirror", rendered only while IDLE; the model follows one
\* startMirror() call at a time and at most n sessions; the closure of the call
\* holds the isMuted of the render the button belongs to
StartMirrorWithin(n) ==
    /\ appState = "IDLE"
    /\ startPc = "idle"
    /\ NumCtx < n
    /\ appState' = "CONNECTING"
    /\ startPc' = "getUserMedia"
    /\ UNCHANGED <<streamRef, inputAudioContextRef, outputAudioContextRef, ctxState,
                   ctxTime, nextStartTimeRef, sources, audioSourcesRef, sessions,
                   messages, interrupts>>
    /\ closureIsMuted' = [closureIsMuted EXCEPT ![NumCtx + 1] = isMuted]
    /\ UNCHANGED <<isMuted, lastFrame, lastAudio, videoIntervalRef, intervals,
                   sessionPromiseRef, activeSessionRef>>

StartMirror == StartMirrorWithin(MaxCtx)

\* getUserMedia rejects: the catch block
GetUserMediaFail ==
    /\ startPc = "getUserMedia"
    /\ startPc' = "idle"
    /\ appState' = "ERROR"
    /\ UNCHANGED <<streamRef, inputAudioContextRef, outputAudioContextRef, ctxState,
                   ctxTime, nextStartTimeRef, sources, audioSourcesRef, sessions,
                   messages, interrupts>>
    /\ UNCHANGED <<isMuted, closureIsMuted, lastFrame, lastAudio, videoIntervalRef, intervals,
                   sessionPromiseRef, activeSessionRef>>

\* the value the cursor is reset to when the session's contexts are created
SessionStartCursor(c) == ctxTime[c]

\* getUserMedia resolves: the stream is kept and video.play() is awaited
GetUserMediaDone ==
    /\ startPc = "getUserMedia"
    /\ startPc' = "play"
    /\ streamRef' = TRUE
    /\ UNCHANGED <<appState, inputAudioContextRef, outputAudioContextRef, ctxState,
                   ctxTime, nextStartTimeRef, sources, audioSourcesRef, sessions,
                   messages, interrupts>>
    /\ UNCHANGED <<isMuted, closureIsMuted, lastFrame, lastAudio, videoIntervalRef, intervals,
                   sessionPromiseRef, activeSessionRef>>

\* video.play() rejects: the catch block
PlayFail ==
    /\ startPc = "play"
    /\ startPc' = "idle"
    /\ appState' = "ERROR"
    /\ UNCHANGED <<streamRef, inputAudioContextRef, outputAudioContextRef, ctxState,
                   ctxTime, nextStartTimeRef, sources, audioSourcesRef, sessions,
                   messages, interrupts>>
    /\ UNCHANGED <<isMuted, closureIsMuted, lastFrame, lastAudio, videoIntervalRef, intervals,
                   sessionPromiseRef, activeSessionRef>>

\* video.play() resolves: the contexts are created, the cursor is reset and the
\* live session is connected with its callbacks
SetupSession ==
    /\ startPc = "play"
    /\ LET c == NumCtx + 1 IN
        /\ startPc' = "idle"
        /\ ctxState' = [ctxState EXCEPT ![c] = "running"]
        /\ inputAudioContextRef' = c
        /\ outputAudioContextRef' = c
        /\ nextStartTimeRef' = SessionStartCursor(c)
        /\ sessions' = [sessions EXCEPT ![c] = "connecting"]
        /\ sessionPromiseRef' = c
        /\ videoIntervalRef' = c
        /\ intervals' = intervals \cup {c}
    /\ UNCHANGED <<appState, streamRef, ctxTime, sources, audioSourcesRef, messages,
                   interrupts>>
    /\ UNCHANGED <<isMuted, closureIsMuted, lastFrame, lastAudio, activeSessionRef>>

\* "Try Again" in the error panel
TryAgain ==
    /\ appState = "ERROR"
    /\ appState' = "IDLE"
    /\ UNCHANGED <<startPc, streamRef, inputAudioContextRef, outputAudioContextRef,
                   ctxState, ctxTime, nextStartTimeRef, sources, audioSourcesRef,
                   sessions, messages, interrupts>>
    /\ UNCHANGED <<isMuted, closureIsMuted, lastFrame, lastAudio, videoIntervalRef, intervals,
                   sessionPromiseRef, activeSessionRef>>

\* ---- session callbacks ----
OnOpen(s) ==
    /\ sessions[s] = "connecting"
    /\ sessions' = [sessions EXCEPT ![s] = "open"]
    /\ appState' = "ACTIVE"
    /\ UNCHANGED <<startPc, streamRef, inputAudioContextRef, outputAudioContextRef,
                   ctxState, ctxTime, nextStartTimeRef, sources, audioSourcesRef,
                   messages, interrupts>>
    /\ activeSessionRef' = s
    /\ UNCHANGED <<isMuted, closureIsMuted, lastFrame, lastAudio, videoIntervalRef,
                   intervals, sessionPromiseRef>>

\* the appState the callbacks of a session see: the closure of the render in
\* which the start button was clicked, where appState is IDLE
ClosureAppState == "IDLE"

OnClose(s) ==
    /\ sessions[s] \in {"connecting", "open"}
    /\ sessions' = [sessions EXCEPT ![s] = "closed"]
    /\ IF ClosureAppState # "IDLE"
       THEN StopMirrorEffect
       ELSE UNCHANGED <<appState, streamRef, inputAudioContextRef,
                        outputAudioContextRef, ctxState, ctxTime, nextStartTimeRef,
                        sources, audioSourcesRef, videoIntervalRef, intervals,
                        sessionPromiseRef, activeSessionRef>>
    /\ UNCHANGED <<startPc, messages, interrupts, isMuted, closureIsMuted, lastFrame,
                   lastAudio>>

OnError(s) ==
    /\ sessions[s] \in {"connecting", "open"}
    /\ StopMirrorEffect
    /\ sessions' = SessionsAfterStop
    /\ UNCHANGED <<startPc, messages, interrupts, isMuted, closureIsMuted, lastFrame,
                   lastAudio>>

\* ---- onmessage: audio scheduling and interruption ----
\* line 115 with the max() forgotten: the chunk starts at the clock's time
StartAtNow(cursor, now) == now

\* line 115 with the max() forgotten: the chunk starts at the cursor, stale or not
StartAtCursor(cursor, now) == cursor

\* line 115: where the next chunk starts
StartAt(cursor, now) == Max(cursor, now)

\* line 126: the cursor after a chunk of duration d was started at startAt
AdvanceCursor(startAt, d) == startAt + d

\* lines 117-127: the source node created for message m, started on the context
\* captured before the await; epoch is the number of cursor resets (interruptions
\* and session starts) that preceded the scheduling
NewSource(m) ==
    LET c == messages[m].ctx IN
    [ctx |-> c, start |-> StartAt(nextStartTimeRef, ctxTime[c]),
     dur |-> messages[m].dur, state |-> "started", msg |-> m,
     epoch |-> interrupts + NumCtx]

\* lines 132-134: stop() on every source of the set
StopAll(srcs, set) ==
    [h \in DOMAIN srcs |->
        IF h \in set /\ srcs[h].state = "started"
        THEN [srcs[h] EXCEPT !.state = "stopped"] ELSE srcs[h]]

\* line 135: audioSourcesRef.current.clear()
ClearSources(set) == {}

\* lines 136-138 left out: the cursor survives the interruption
KeepCursor(cursor) == cursor

\* lines 136-138 resetting the cursor to the start of the timeline
ResetCursorZero(cursor) == 0

\* lines 136-138: the cursor is reset to the output context's clock
ResetCursor(cursor) ==
    IF outputAudioContextRef # 0 THEN ctxTime[outputAudioContextRef] ELSE cursor

\* lines 131-139 applied to the cursor, sources and set the handler has reached
InterruptBlock(cursor, srcs, set) ==
    /\ sources' = StopAll(srcs, set)
    /\ audioSourcesRef' = ClearSources(set)
    /\ nextStartTimeRef' = ResetCursor(cursor)
    /\ interrupts' = interrupts + 1

\* the record kept of a received message while its handler is suspended: d = 0
\* stands for a message without inline audio data, ctx is the context captured
\* at line 104, torn tells that this context was already closed and seen is the
\* number of interruptions processed when the message arrived
Received(d, intr, c, st, n) ==
    [dur |-> d, interrupted |-> intr, ctx |-> c,
     torn |-> (c # 0 /\ ctxState[c] = "closed"), seen |-> interrupts,
     status |-> st, interrupts |-> n]

\* the record kept of a message once its handler has finished
Handled(r, st, n) ==
    [dur |-> 0, interrupted |-> r.interrupted, ctx |-> 0, torn |-> FALSE, seen |-> 0,
     status |-> st, interrupts |-> n]

\* onmessage up to its first suspension: a message with audio is dropped when
\* there is no output context and else awaits the decoder; a message without
\* audio runs the interruption block at once (a message with neither audio nor
\* the interrupted flag changes nothing and is left out)
OnMessage(s, d, intr) ==
    /\ sessions[s] = "open"
    /\ Len(messages) < MaxMsgs
    /\ d > 0 \/ intr
    /\ IF d > 0
       THEN /\ messages' = Append(messages,
                 IF outputAudioContextRef = 0
                 THEN Handled(Received(d, intr, 0, "dropped", 0), "dropped", 0)
                 ELSE Received(d, intr, outputAudioContextRef, "decoding", 0))
            /\ UNCHANGED <<nextStartTimeRef, sources, audioSourcesRef, interrupts>>
       ELSE /\ messages' = Append(messages,
                 Handled(Received(0, intr, 0, "done", 1), "done", 1))
            /\ InterruptBlock(nextStartTimeRef, sources, audioSourcesRef)
    /\ UNCHANGED <<appState, startPc, streamRef, inputAudioContextRef,
                   outputAudioContextRef, ctxState, ctxTime, sessions>>
    /\ UNCHANGED <<isMuted, closureIsMuted, lastFrame, lastAudio, videoIntervalRef, intervals,
                   sessionPromiseRef, activeSessionRef>>

\* the decoder resolves: lines 115-127 schedule the chunk, then lines 131-139
\* run if the same message is flagged interrupted
DecodeDone(m) ==
    /\ m \in Pending
    /\ LET src == NewSource(m)
           srcs == Append(sources, src)
           set == audioSourcesRef \cup {Len(srcs)}
           cursor == AdvanceCursor(src.start, src.dur)
       IN IF messages[m].interrupted
          THEN /\ InterruptBlock(cursor, srcs, set)
               /\ messages' = [messages EXCEPT ![m] = Handled(@, "done", 1)]
          ELSE /\ sources' = srcs
               /\ audioSourcesRef' = set
               /\ nextStartTimeRef' = cursor
               /\ messages' = [messages EXCEPT ![m] = Handled(@, "done", 0)]
               /\ UNCHANGED interrupts
    /\ UNCHANGED <<appState, startPc, streamRef, inputAudioContextRef,
                   outputAudioContextRef, ctxState, ctxTime, sessions>>
    /\ UNCHANGED <<isMuted, closureIsMuted, lastFrame, lastAudio, videoIntervalRef, intervals,
                   sessionPromiseRef, activeSessionRef>>

\* the decoder rejects: nothing catches it, the handler's promise rejects and
\* the rest of the handler does not run
DecodeFail(m) ==
    /\ m \in Pending
    /\ "fail" \in DecodeOutcomes
    /\ messages' = [messages EXCEPT ![m] = Handled(@, "rejected", 0)]
    /\ UNCHANGED <<appState, startPc, streamRef, inputAudioContextRef,
                   outputAudioContextRef, ctxState, ctxTime, nextStartTimeRef,
                   sources, audioSourcesRef, sessions, interrupts>>
    /\ UNCHANGED <<isMuted, closureIsMuted, lastFrame, lastAudio, videoIntervalRef, intervals,
                   sessionPromiseRef, activeSessionRef>>

\* lines 121-123 left out: the finished source stays in the set
KeepEnded(set, h) == set

\* lines 121-123 clearing the whole set instead of deleting one source
ClearOnEnded(set, h) == {}

\* lines 121-123: the 'ended' listener of a source whose playback ran to its end
RemoveEnded(set, h) == set \ {h}

Ended(h) ==
    /\ h \in DOMAIN sources
    /\ sources[h].state = "started"
    /\ ctxState[sources[h].ctx] = "running"
    /\ ctxTime[sources[h].ctx] >= sources[h].start + sources[h].dur
    /\ sources' = [sources EXCEPT ![h].state = "ended"]
    /\ audioSourcesRef' = RemoveEnded(audioSourcesRef, h)
    /\ UNCHANGED <<appState, startPc, streamRef, inputAudioContextRef,
                   outputAudioContextRef, ctxState, ctxTime, nextStartTimeRef,
                   sessions, messages, interrupts>>
    /\ UNCHANGED <<isMuted, closureIsMuted, lastFrame, lastAudio, videoIntervalRef, intervals,
                   sessionPromiseRef, activeSessionRef>>

\* the 'ended' event of a source that stop() ended: the same listener runs for a
\* source the interruption block has already taken out of the set
EndedAfterStop(h) ==
    /\ h \in DOMAIN sources
    /\ sources[h].state = "stopped"
    /\ ctxState[sources[h].ctx] = "running"
    /\ sources' = [sources EXCEPT ![h].state = "notified"]
    /\ audioSourcesRef' = RemoveEnded(audioSourcesRef, h)
    /\ UNCHANGED <<appState, startPc, streamRef, inputAudioContextRef,
                   outputAudioContextRef, ctxState, ctxTime, nextStartTimeRef,
                   sessions, messages, interrupts>>
    /\ UNCHANGED <<isMuted, closureIsMuted, lastFrame, lastAudio, videoIntervalRef, intervals,
                   sessionPromiseRef, activeSessionRef>>

\* ---- media streaming to the session ----
\* the mute button, rendered only while ACTIVE
ToggleMute ==
    /\ appState = "ACTIVE"
    /\ isMuted' = ~isMuted
    /\ UNCHANGED <<appState, startPc, streamRef, inputAudioContextRef,
                   outputAudioContextRef, ctxState, ctxTime, nextStartTimeRef, sources,
                   audioSourcesRef, sessions, messages, interrupts, closureIsMuted,
                   lastFrame, lastAudio, videoIntervalRef, intervals,
                   sessionPromiseRef, activeSessionRef>>

\* line 175: the interval callback sends a frame when the session promise is
\* there and the appState of its closure is not IDLE (the video and the canvas
\* elements are always mounted)
FrameSent == sessionPromiseRef # 0 /\ ClosureAppState # "IDLE"

\* one run of the callback of interval timer i; lastFrame keeps the appState on
\* screen at that time and whether a frame was sent
VideoTick(i) ==
    /\ i \in intervals
    /\ lastFrame' = [appState |-> appState, sent |-> FrameSent]
    /\ UNCHANGED <<appState, startPc, streamRef, inputAudioContextRef,
                   outputAudioContextRef, ctxState, ctxTime, nextStartTimeRef, sources,
                   audioSourcesRef, sessions, messages, interrupts, isMuted,
                   closureIsMuted, lastAudio, videoIntervalRef, intervals,
                   sessionPromiseRef, activeSessionRef>>

\* line 87: onaudioprocess of session s sends unless the isMuted of its closure
\* is set
AudioSent(s) == ~closureIsMuted[s]

\* one onaudioprocess callback of the script processor that onopen of session s
\* created on its input context; lastAudio keeps the isMuted on screen at that
\* time and whether a chunk was sent
AudioProcess(s) ==
    /\ sessions[s] = "open"
    /\ ctxState[s] = "running"
    /\ lastAudio' = [fired |-> TRUE, muted |-> isMuted, sent |-> AudioSent(s)]
    /\ UNCHANGED <<appState, startPc, streamRef, inputAudioContextRef,
                   outputAudioContextRef, ctxState, ctxTime, nextStartTimeRef, sources,
                   audioSourcesRef, sessions, messages, interrupts, isMuted,
                   closureIsMuted, lastFrame, videoIntervalRef, intervals,
                   sessionPromiseRef, activeSessionRef>>

\* ---- the output clock ----
Tick ==
    /\ \E c \in Ctxs : ctxState[c] = "running"
    /\ \A c \in Ctxs : ctxState[c] = "running" => ctxTime[c] < MaxTime
    /\ ctxTime' = [c \in Ctxs |-> IF ctxState[c] = "running" THEN ctxTime[c] + 1
                                  ELSE ctxTime[c]]
    /\ UNCHANGED <<appState, startPc, streamRef, inputAudioContextRef,
                   outputAudioContextRef, ctxState, nextStartTimeRef, sources,
                   audioSourcesRef, sessions, messages, interrupts>>
    /\ UNCHANGED <<isMuted, closureIsMuted, lastFrame, lastAudio, videoIntervalRef, intervals,
                   sessionPromiseRef, activeSessionRef>>

\* ---- the claims ----
\* a step that schedules a chunk appends one source
Scheduling == Len(sources') = Len(sources) + 1
LastSource == sources[Len(sources)]
NewestSource == sources'[Len(sources')]
\* a step in which the interruption block runs
Interrupting == interrupts' = interrupts + 1

\* C1: gapless playback. A chunk scheduled while its clock is not past the
\* cursor, with no interruption and no session start since the previous chunk
\* was scheduled, starts exactly where the previous chunk ends, and after the
\* enqueue the cursor is the chunk's start plus its duration.
C1_Gapless ==
    [][Scheduling =>
        /\ (~Interrupting => nextStartTimeRef' = NewestSource.start + NewestSource.dur)
        /\ (/\ Len(sources) >= 1
            /\ LastSource.epoch = NewestSource.epoch
            /\ ctxTime[NewestSource.ctx] <= nextStartTimeRef)
           => NewestSource.start = LastSource.start + LastSource.dur]_vars

\* two chunks of one epoch, the second scheduled ahead of its clock and starting
\* where the first one ends
C1_Witness ==
    /\ Len(sources) = 2
    /\ sources[1].epoch = sources[2].epoch
    /\ sources[2].start = sources[1].start + sources[1].dur
    /\ ctxTime[sources[2].ctx] > sources[1].start
    /\ ctxTime[sources[2].ctx] < sources[2].start
    /\ nextStartTimeRef = sources[2].start + sources[2].dur

\* C2: every scheduled chunk starts at max(cursor, now), now being the clock of
\* the context it is scheduled on, hence never before now.
C2_StartAtMax ==
    [][Scheduling =>
        /\ NewestSource.start = Max(nextStartTimeRef, ctxTime[NewestSource.ctx])
        /\ NewestSource.start >= ctxTime[NewestSource.ctx]]_vars

\* a chunk scheduled after the cursor had passed: it leaves a gap after the
\* previous chunk of its epoch
C2_Witness ==
    /\ Len(sources) = 2
    /\ sources[1].epoch = sources[2].epoch
    /\ sources[1].ctx = sources[2].ctx
    /\ sources[2].start > sources[1].start + sources[1].dur

\* C3: right after the interruption block has run the source set is empty, every
\* handle that was in it (the chunk of the same message included) is stopped and
\* the cursor is the output context's current time.
C3_InterruptClears ==
    [][Interrupting =>
        /\ audioSourcesRef' = {}
        /\ \A h \in DOMAIN sources' :
              (h \in audioSourcesRef \/ h \notin DOMAIN sources)
                  => sources'[h].state = "stopped"
        /\ outputAudioContextRef' # 0
        /\ nextStartTimeRef' = ctxTime'[outputAudioContextRef']]_vars

\* an interruption at a time after 0 that stopped two scheduled chunks
C3_Witness ==
    /\ interrupts = 1
    /\ Len(sources) = 2
    /\ \A h \in DOMAIN sources : sources[h].state = "stopped"
    /\ audioSourcesRef = {}
    /\ nextStartTimeRef > 0
    /\ nextStartTimeRef = ctxTime[outputAudioContextRef]

\* C4: an audio message received after teardown (its output context is closed)
\* has no effect: its handler does not reject, the cursor is unchanged and no
\* source is created or added to the set.
C4_EnqueueAfterTeardownNoEffect ==
    [][\A m \in Pending :
        (messages[m].torn /\ ~messages[m].interrupted /\ m \notin Pending')
            => /\ messages'[m].status # "rejected"
               /\ UNCHANGED <<nextStartTimeRef, sources, audioSourcesRef>>]_vars

\* C5: chunks are started in arrival order: of two scheduled chunks the one
\* whose message arrived first starts first.
C5_ArrivalOrder ==
    \A a, b \in DOMAIN sources :
        sources[a].msg < sources[b].msg => sources[a].start < sources[b].start

\* C6: a chunk whose message arrived before an interruption that has been
\* processed since is not started afterwards.
C6_NoStaleChunkAfterInterrupt ==
    [][\A m \in Pending :
        (m \notin Pending' /\ interrupts > messages[m].seen) => ~Scheduling]_vars

\* C7: every handle in the set is started and neither ended nor stopped, and a
\* handle leaves the set exactly when it ends naturally or is stopped by an
\* interruption.
C7_ActiveSetInvariant ==
    [][/\ \A h \in audioSourcesRef : h \in DOMAIN sources /\ sources[h].state = "started"
       /\ \A h \in audioSourcesRef' : h \in DOMAIN sources' /\ sources'[h].state = "started"
       /\ \A h \in DOMAIN sources :
             (h \in audioSourcesRef /\ h \notin audioSourcesRef')
                 <=> (sources[h].state = "started"
                      /\ sources'[h].state \in {"ended", "stopped"})]_vars

\* one chunk has ended and left the set while a later one is still in it, after
\* a teardown
C7_Witness ==
    /\ \E h \in DOMAIN sources : sources[h].state = "ended" /\ h \notin audioSourcesRef
    /\ audioSourcesRef # {}
    /\ \E c \in Ctxs : ctxState[c] = "closed"

\* C8: the cursor never decreases except in a step that runs the interruption
\* block or starts a session, and such a step leaves it at the output context's
\* current time.
C8_CursorMonotone ==
    [][nextStartTimeRef' < nextStartTimeRef =>
        /\ Interrupting \/ NumCtx' = NumCtx + 1
        /\ outputAudioContextRef' # 0
        /\ nextStartTimeRef' = ctxTime'[outputAudioContextRef']]_vars

\* the cursor was advanced by a chunk and then lowered to the clock's time by an
\* interruption
C8_Witness ==
    /\ Len(messages) = 2
    /\ messages[1].status = "done" /\ ~messages[1].interrupted
    /\ messages[2].status = "done" /\ messages[2].interrupts = 1
    /\ Len(sources) = 1
    /\ sources[1].state = "stopped"
    /\ nextStartTimeRef < sources[1].start + sources[1].dur
    /\ nextStartTimeRef = ctxTime[outputAudioContextRef]

\* C9: a decode failure on a live output context drops the chunk: the handler
\* absorbs it (it does not end in a rejection) and the cursor and the source set
\* are unchanged.
C9_DecodeFailureAbsorbed ==
    [][\A m \in Pending :
        (~messages[m].torn /\ m \notin Pending' /\ ~Scheduling)
            => /\ messages'[m].status # "rejected"
               /\ ~messages[m].interrupted
                    => UNCHANGED <<nextStartTimeRef, audioSourcesRef>>]_vars

\* C10: every message flagged interrupted whose handler has finished ran the
\* interruption block exactly once.
C10_InterruptOncePerSignal ==
    \A m \in DOMAIN messages :
        (messages[m].interrupted /\ messages[m].status # "decoding")
            => messages[m].interrupts = 1

\* C11: the 'ended' listener of a source whose playback ran to its end removes
\* exactly that source from the set, so once no scheduled source is left
\* unfinished the set is empty; the 'ended' event of a source that an
\* interruption stopped and removed changes neither the set nor the cursor.
C11_CompletionRemoves ==
    [][/\ \A h \in DOMAIN sources :
            /\ (sources[h].state = "started" /\ sources'[h].state = "ended")
                   => /\ h \in audioSourcesRef
                      /\ audioSourcesRef' = audioSourcesRef \ {h}
            /\ (sources[h].state = "stopped" /\ sources'[h].state = "notified")
                   => UNCHANGED <<audioSourcesRef, nextStartTimeRef>>
       /\ (\A h \in DOMAIN sources' : sources'[h].state # "started")
             => audioSourcesRef' = {}]_vars

\* one chunk ended naturally, a later one was stopped by an interruption and its
\* 'ended' event has been delivered, and the set is empty
C11_Witness ==
    /\ \E h \in DOMAIN sources : sources[h].state = "ended"
    /\ \E h \in DOMAIN sources : sources[h].state = "notified"
    /\ audioSourcesRef = {}

\* a step in which stopMirror runs: the Stop button, onerror, and onclose when
\* its closure does not hold IDLE
StopMirrorRuns ==
    \/ StopMirror
    \/ \E s \in Ctxs : OnError(s)
    \/ ClosureAppState # "IDLE" /\ \E s \in Ctxs : OnClose(s)

\* C12: every run of the video interval callback while the app state is
\* CONNECTING or ACTIVE (the session promise being there) sends a frame.
C12_FramesStreamed ==
    (lastFrame.appState \in {"CONNECTING", "ACTIVE"} /\ sessionPromiseRef # 0)
        => lastFrame.sent

\* C13: an onaudioprocess callback that fires while isMuted is set sends no
\* microphone chunk.
C13_MutedSendsNothing ==
    (lastAudio.fired /\ lastAudio.muted) => ~lastAudio.sent

\* C14: a step in which onerror fires tears the local resources down and leaves
\* the app state ERROR. (While ACTIVE a click on Stop makes the same step as
\* onerror; the steps taken from the other app states are onerror's alone.)
C14_ErrorStateAfterOnError ==
    [][(appState # "ACTIVE" /\ \E s \in Ctxs : OnError(s)) =>
        /\ streamRef' = FALSE
        /\ videoIntervalRef \notin intervals'
        /\ appState' = "ERROR"]_vars

\* C15: a step in which a session closes while the app state is CONNECTING or
\* ACTIVE runs stopMirror: the stream is released, both audio contexts are
\* closed, the video interval is cleared and the app state becomes IDLE.
C15_CloseStopsMirror ==
    [][\A s \in Ctxs :
        (/\ sessions[s] # "closed" /\ sessions'[s] = "closed"
         /\ appState \in {"CONNECTING", "ACTIVE"})
            => /\ streamRef' = FALSE
               /\ ctxState' = CloseContexts
               /\ \A c \in Ctxs : ctxState'[c] # "running"
               /\ videoIntervalRef \notin intervals'
               /\ appState' = "IDLE"]_vars

\* C16: a step that starts a session (creates its audio contexts) leaves the
\* cursor at the new output context's current time and the source set empty.
C16_FreshSchedulerAtStart ==
    [][NumCtx' = NumCtx + 1 =>
        /\ nextStartTimeRef' = ctxTime'[outputAudioContextRef']
        /\ audioSourcesRef' = {}]_vars

\* C17: after every run of stopMirror the stream ref is null, no video interval
\* is running and the app state is IDLE, and running stopMirror once more would
\* change nothing.
C17_StopMirrorIdempotent ==
    [][StopMirrorRuns =>
        /\ streamRef' = FALSE
        /\ intervals' = {}
        /\ appState' = "IDLE"
        /\ CloseContexts' = ctxState'
        /\ ClearInterval' = intervals']_vars

Next ==
    \/ StartMirror
    \/ GetUserMediaFail
    \/ GetUserMediaDone
    \/ PlayFail
    \/ SetupSession
    \/ TryAgain
    \/ StopMirror
    \/ \E s \in Ctxs : OnOpen(s)
    \/ \E s \in Ctxs : OnClose(s)
    \/ \E s \in Ctxs : OnError(s)
    \/ \E s \in Ctxs, d \in 0..MaxDur, intr \in BOOLEAN : OnMessage(s, d, intr)
    \/ \E m \in 1..MaxMsgs : DecodeDone(m)
    \/ \E m \in 1..MaxMsgs : DecodeFail(m)
    \/ \E h \in 1..MaxMsgs : Ended(h)
    \/ \E h \in 1..MaxMsgs : EndedAfterStop(h)
    \/ Tick

\* the session lifecycle with the response audio: up to MaxCtx sessions
Spec == Init /\ [][Next]_vars

\* the session lifecycle with the streaming of camera frames and microphone
\* audio: up to MaxStarts sessions, no response audio
StreamingStartMirror == StartMirrorWithin(MaxStarts)

StreamingNext ==
    \/ StreamingStartMirror
    \/ GetUserMediaFail
    \/ GetUserMediaDone
    \/ PlayFail
    \/ SetupSession
    \/ TryAgain
    \/ StopMirror
    \/ ToggleMute
    \/ \E s \in Ctxs : OnOpen(s)
    \/ \E s \in Ctxs : OnClose(s)
    \/ \E s \in Ctxs : OnError(s)
    \/ \E i \in Ctxs : VideoTick(i)
    \/ \E s \in Ctxs : AudioProcess(s)

StreamingSpec == Init /\ [][StreamingNext]_vars
====
